---- MODULE Spec2Model ----
(***************************************************************************)
(* State-machine model of the SHT4x driver class (src/SHT4x.py).           *)
(*                                                                         *)
(* Representation choices:                                                 *)
(*   - Python's None is the integer None, which lies outside the range of  *)
(*     every byte, raw code, command byte and converted reading.           *)
(*   - Delays are in hundredths of a second (0.01 s = 1, 1.01 s = 101).    *)
(*   - Converted readings are in tenths of a unit (36.2 = 362), the        *)
(*     resolution round(x, 1) leaves.                                      *)
(*   - A Python string that the driver builds (the serial number) is a     *)
(*     sequence of one-character strings; mode names are plain strings.    *)
(*   - The I2C transport (smbus2) is the environment: every write_byte and *)
(*     every i2c_rdwr may raise, and a read delivers six arbitrary bytes.  *)
(***************************************************************************)
EXTENDS Integers, Sequences, FiniteSets, TLC

VARIABLES phase, _valid, _serial_number, _mode, _delay, _temperature,
          _humidity, busLog, lastOp, lastGood, pure

vars == <<phase, _valid, _serial_number, _mode, _delay, _temperature,
          _humidity, busLog, lastOp, lastGood, pure>>

None == -100000

(* Number of sample 16-bit words the sensor may answer with. *)
NumWords == 2

(* Sample words the transport can deliver, with the checksum the sensor    *)
(* chip attaches to each (Sensirion CRC-8 of the two bytes).               *)
SampleWords == <<171, 4660, 22136, 48879, 65535, 0>>
SampleCrcs == <<151, 55, 125, 146, 172, 129>>

Words == {SampleWords[i] : i \in 1..NumWords}

(* Three-byte groups the sensor can deliver: each sample word followed by  *)
(* its own checksum, and one corrupted group (the first sample word with   *)
(* the checksum of the second).                                            *)
Groups ==
    {<<SampleWords[i] \div 256, SampleWords[i] % 256, SampleCrcs[i]>> : i \in 1..NumWords}
    \cup {<<SampleWords[1] \div 256, SampleWords[1] % 256, SampleCrcs[2]>>}

(* Six-byte answers of the sensor: two groups, each possibly corrupted. *)
Responses == {g1 \o g2 : <<g1, g2>> \in Groups \X Groups}

(* What the transport does during one write-then-read exchange: the write *)
(* raises, or the write succeeds and the read raises, or the write         *)
(* succeeds and the read delivers six bytes.                               *)
Exchanges ==
    {[writeOk |-> FALSE, readOk |-> FALSE, data |-> <<>>],
     [writeOk |-> TRUE, readOk |-> FALSE, data |-> <<>>]}
    \cup {[writeOk |-> TRUE, readOk |-> TRUE, data |-> d] : d \in Responses}

CMD_SOFT_RESET == 148
CMD_READ_SERIAL_NUMBER == 137

(* Variant of VALID_MODES in which "medium" carries the command byte of    *)
(* "high".                                                                 *)
VALID_MODES_DuplicateCommand ==
    << [name |-> "high",            cmd |-> 253, delay |-> 1],
       [name |-> "medium",          cmd |-> 253, delay |-> 1],
       [name |-> "low",             cmd |-> 224, delay |-> 1],
       [name |-> "heat 1s 200mW",   cmd |-> 57,  delay |-> 101],
       [name |-> "heat 0.1s 200mW", cmd |-> 50,  delay |-> 11],
       [name |-> "heat 1s 110mW",   cmd |-> 47,  delay |-> 101],
       [name |-> "heat 0.1s 110mW", cmd |-> 36,  delay |-> 11],
       [name |-> "heat 1s 20mW",    cmd |-> 30,  delay |-> 101],
       [name |-> "heat 0.1s 20mW",  cmd |-> 21,  delay |-> 11] >>

(* The dict VALID_MODES in insertion (iteration) order. *)
VALID_MODES ==
    << [name |-> "high",            cmd |-> 253, delay |-> 1],
       [name |-> "medium",          cmd |-> 246, delay |-> 1],
       [name |-> "low",             cmd |-> 224, delay |-> 1],
       [name |-> "heat 1s 200mW",   cmd |-> 57,  delay |-> 101],
       [name |-> "heat 0.1s 200mW", cmd |-> 50,  delay |-> 11],
       [name |-> "heat 1s 110mW",   cmd |-> 47,  delay |-> 101],
       [name |-> "heat 0.1s 110mW", cmd |-> 36,  delay |-> 11],
       [name |-> "heat 1s 20mW",    cmd |-> 30,  delay |-> 101],
       [name |-> "heat 0.1s 20mW",  cmd |-> 21,  delay |-> 11] >>

ValidNames == {VALID_MODES[i].name : i \in 1..Len(VALID_MODES)}

(* Names a caller may pass that are not keys of VALID_MODES. *)
InvalidNames == {"invalid_mode", "nonexistent", "High", ""}

ModeNames == ValidNames \cup InvalidNames

----------------------------------------------------------------------------
(* Bit operations on non-negative Python integers (unbounded width). *)

RECURSIVE BitXor(_, _)
BitXor(a, b) ==
    IF a = 0 THEN b
    ELSE IF b = 0 THEN a
    ELSE ((a + b) % 2) + 2 * BitXor(a \div 2, b \div 2)

RECURSIVE BitOr(_, _)
BitOr(a, b) ==
    IF a = 0 THEN b
    ELSE IF b = 0 THEN a
    ELSE (IF a % 2 = 1 \/ b % 2 = 1 THEN 1 ELSE 0) + 2 * BitOr(a \div 2, b \div 2)

RECURSIVE BitAnd(_, _)
BitAnd(a, b) ==
    IF a = 0 \/ b = 0 THEN 0
    ELSE (IF a % 2 = 1 /\ b % 2 = 1 THEN 1 ELSE 0) + 2 * BitAnd(a \div 2, b \div 2)

RECURSIVE Pow2(_)
Pow2(n) == IF n = 0 THEN 1 ELSE 2 * Pow2(n - 1)

Shl(a, n) == a * Pow2(n)

CRC8_POLYNOMIAL == 49

(* Variant of the inner loop that tests the high bit after the shift. *)
RECURSIVE CrcShift_TestsAfterShift(_, _)
CrcShift_TestsAfterShift(crc, n) ==
    IF n = 0 THEN crc
    ELSE CrcShift_TestsAfterShift(IF BitAnd(Shl(crc, 1), 128) # 0
                                  THEN BitXor(Shl(crc, 1), CRC8_POLYNOMIAL)
                                  ELSE Shl(crc, 1),
                                  n - 1)

(* The inner loop "for _ in range(8)": the accumulator is not masked. *)
RECURSIVE CrcShift(_, _)
CrcShift(crc, n) ==
    IF n = 0 THEN crc
    ELSE CrcShift(IF BitAnd(crc, 128) # 0
                  THEN BitXor(Shl(crc, 1), CRC8_POLYNOMIAL)
                  ELSE Shl(crc, 1),
                  n - 1)

RECURSIVE CrcBytesLoop(_, _, _)
CrcBytesLoop(crc, data, i) ==
    IF i > Len(data) THEN crc
    ELSE CrcBytesLoop(CrcShift(BitXor(crc, data[i]), 8), data, i + 1)

(* Variant of _calculate_crc8 that starts the accumulator at 0x00. *)
_calculate_crc8_ZeroInit(data) == BitAnd(CrcBytesLoop(0, data, 1), 255)

_calculate_crc8(data) == BitAnd(CrcBytesLoop(255, data, 1), 255)

(* The calls _calculate_crc8(data[0:2]) and _calculate_crc8(data[3:5]),    *)
(* evaluated once for every two-byte slice a response can carry.           *)
Crc8OfSlice ==
    [d \in {<<w \div 256, w % 256>> : w \in Words} |-> _calculate_crc8(d)]

----------------------------------------------------------------------------
(* Transport events recorded for the operation that ran last. *)

WriteEv(command, ok) == [ev |-> "write", byte |-> command, ok |-> ok]
SleepEv(d) == [ev |-> "sleep", secs |-> d]
ReadEv(ok, data) == [ev |-> "read", ok |-> ok, data |-> data]

(* _write_command: one write_byte to the bus; ok = FALSE means it raised. *)
_write_command(command, ok) == [raised |-> ~ok, log |-> <<WriteEv(command, ok)>>]

(* Variant of _read_data_with_crc that checks the first group only. *)
_read_data_with_crc_FirstGroupOnly(readOk, data) ==
    IF ~readOk
    THEN [raised |-> TRUE, value |-> <<>>, log |-> <<ReadEv(FALSE, <<>>)>>]
    ELSE IF Crc8OfSlice[SubSeq(data, 1, 2)] = data[3]
         THEN [raised |-> FALSE,
               value |-> <<BitOr(Shl(data[1], 8), data[2]),
                           BitOr(Shl(data[4], 8), data[5])>>,
               log |-> <<ReadEv(TRUE, data)>>]
         ELSE [raised |-> TRUE, value |-> <<>>,
               log |-> <<ReadEv(TRUE, data)>>]

(* _read_data_with_crc: read six bytes, check both groups, return the two  *)
(* big-endian words or raise.                                              *)
_read_data_with_crc(readOk, data) ==
    IF ~readOk
    THEN [raised |-> TRUE, value |-> <<>>, log |-> <<ReadEv(FALSE, <<>>)>>]
    ELSE LET crc1 == Crc8OfSlice[SubSeq(data, 1, 2)]
             crc2 == Crc8OfSlice[SubSeq(data, 4, 5)]
         IN  IF crc1 = data[3] /\ crc2 = data[6]
             THEN [raised |-> FALSE,
                   value |-> <<BitOr(Shl(data[1], 8), data[2]),
                               BitOr(Shl(data[4], 8), data[5])>>,
                   log |-> <<ReadEv(TRUE, data)>>]
             ELSE [raised |-> TRUE, value |-> <<>>,
                   log |-> <<ReadEv(TRUE, data)>>]

(* _get_serial_number: write 0x89, sleep 10 ms, read; [] on any exception. *)
_get_serial_number(writeOk, readOk, data) ==
    LET w == _write_command(CMD_READ_SERIAL_NUMBER, writeOk)
        r == _read_data_with_crc(readOk, data)
    IN  IF w.raised
        THEN [raised |-> FALSE, value |-> <<>>, log |-> w.log]
        ELSE [raised |-> FALSE, value |-> IF r.raised THEN <<>> ELSE r.value,
              log |-> w.log \o <<SleepEv(1)>> \o r.log]

(* Variant of reset without the try/except: a write error propagates. *)
reset_Propagates(writeOk) ==
    LET w == _write_command(CMD_SOFT_RESET, writeOk)
    IN  IF w.raised
        THEN [raised |-> TRUE, ret |-> FALSE, log |-> w.log]
        ELSE [raised |-> FALSE, ret |-> TRUE, log |-> w.log \o <<SleepEv(1)>>]

(* Variant of reset that reports True also when the write raised. *)
reset_AlwaysTrue(writeOk) ==
    LET w == _write_command(CMD_SOFT_RESET, writeOk)
    IN  IF w.raised
        THEN [raised |-> FALSE, ret |-> TRUE, log |-> w.log]
        ELSE [raised |-> FALSE, ret |-> TRUE, log |-> w.log \o <<SleepEv(1)>>]

(* reset: write 0x94, sleep 10 ms, True; False when the write raised.  The *)
(* bare except lets no exception out (raised is FALSE), as in update and   *)
(* _get_serial_number.                                                     *)
reset(writeOk) ==
    LET w == _write_command(CMD_SOFT_RESET, writeOk)
    IN  IF w.raised
        THEN [raised |-> FALSE, ret |-> FALSE, log |-> w.log]
        ELSE [raised |-> FALSE, ret |-> TRUE, log |-> w.log \o <<SleepEv(1)>>]

(* Variant of update that drops the stored codes when the write raised. *)
update_ClearsOnWriteFailure(m, d, t, h, writeOk, readOk, data) ==
    LET w == _write_command(m, writeOk)
        r == _read_data_with_crc(readOk, data)
    IN  IF w.raised
        THEN [raised |-> FALSE, ret |-> FALSE, valid |-> FALSE, temperature |-> None,
              humidity |-> None, log |-> w.log]
        ELSE IF r.raised
        THEN [raised |-> FALSE, ret |-> FALSE, valid |-> FALSE, temperature |-> t,
              humidity |-> h, log |-> w.log \o <<SleepEv(d)>> \o r.log]
        ELSE [raised |-> FALSE, ret |-> TRUE, valid |-> TRUE, temperature |-> r.value[1],
              humidity |-> r.value[2], log |-> w.log \o <<SleepEv(d)>> \o r.log]

(* Variant of update that drops the stored codes when the read or the      *)
(* checksum validation raised.                                             *)
update_ClearsOnReadFailure(m, d, t, h, writeOk, readOk, data) ==
    LET w == _write_command(m, writeOk)
        r == _read_data_with_crc(readOk, data)
    IN  IF w.raised
        THEN [raised |-> FALSE, ret |-> FALSE, valid |-> FALSE, temperature |-> t,
              humidity |-> h, log |-> w.log]
        ELSE IF r.raised
        THEN [raised |-> FALSE, ret |-> FALSE, valid |-> FALSE, temperature |-> None,
              humidity |-> None, log |-> w.log \o <<SleepEv(d)>> \o r.log]
        ELSE [raised |-> FALSE, ret |-> TRUE, valid |-> TRUE, temperature |-> r.value[1],
              humidity |-> r.value[2], log |-> w.log \o <<SleepEv(d)>> \o r.log]

(* update: write the stored command, sleep the stored delay, read and      *)
(* store both words; any exception gives _valid = False and False.         *)
update(m, d, t, h, writeOk, readOk, data) ==
    LET w == _write_command(m, writeOk)
        r == _read_data_with_crc(readOk, data)
    IN  IF w.raised
        THEN [raised |-> FALSE, ret |-> FALSE, valid |-> FALSE, temperature |-> t,
              humidity |-> h, log |-> w.log]
        ELSE IF r.raised
        THEN [raised |-> FALSE, ret |-> FALSE, valid |-> FALSE, temperature |-> t,
              humidity |-> h, log |-> w.log \o <<SleepEv(d)>> \o r.log]
        ELSE [raised |-> FALSE, ret |-> TRUE, valid |-> TRUE, temperature |-> r.value[1],
              humidity |-> r.value[2], log |-> w.log \o <<SleepEv(d)>> \o r.log]

(* mode getter: first table entry whose command byte is the stored one. *)
RECURSIVE ModeGetterLoop(_, _)
ModeGetterLoop(m, i) ==
    IF i > Len(VALID_MODES) THEN ""
    ELSE IF VALID_MODES[i].cmd = m THEN VALID_MODES[i].name
    ELSE ModeGetterLoop(m, i + 1)

(* Variant of the mode getter whose loop skips the first table entry. *)
ModeGetter_SkipsFirst(m) == ModeGetterLoop(m, 2)

ModeGetter(m) == ModeGetterLoop(m, 1)

(* mode setter: _mode = None, then the loop over VALID_MODES with break. *)
RECURSIVE ModeSetterLoop(_, _, _, _)
ModeSetterLoop(name, m, d, i) ==
    IF i > Len(VALID_MODES) THEN [mode |-> m, delay |-> d]
    ELSE IF VALID_MODES[i].name = name
         THEN [mode |-> VALID_MODES[i].cmd, delay |-> VALID_MODES[i].delay]
         ELSE ModeSetterLoop(name, m, d, i + 1)

(* Variant of the mode setter that falls back to "high" for an unknown     *)
(* name instead of raising.                                                *)
ModeSetter_DefaultsToHigh(name, d) ==
    LET r == ModeSetterLoop(name, None, d, 1)
    IN  IF r.mode = None
        THEN [mode |-> 253, delay |-> 1, raised |-> FALSE]
        ELSE [mode |-> r.mode, delay |-> r.delay, raised |-> FALSE]

ModeSetter(name, d) ==
    LET r == ModeSetterLoop(name, None, d, 1)
    IN  [mode |-> r.mode, delay |-> r.delay, raised |-> (r.mode = None)]

----------------------------------------------------------------------------
(* Serial number formatting: hex(w)[2:].zfill(4) for each word. *)

HexDigits == <<"0", "1", "2", "3", "4", "5", "6", "7",
               "8", "9", "a", "b", "c", "d", "e", "f">>

RECURSIVE HexDigitsOf(_)
HexDigitsOf(n) ==
    IF n < 16 THEN <<HexDigits[n + 1]>>
    ELSE HexDigitsOf(n \div 16) \o <<HexDigits[(n % 16) + 1]>>

(* Python's hex(): "0x" followed by the digits without leading zeros. *)
hex(n) == <<"0", "x">> \o HexDigitsOf(n)

(* Variant of zfill that never pads. *)
zfill_NoPadding(s, width) == s

RECURSIVE zfill(_, _)
zfill(s, width) == IF Len(s) >= width THEN s ELSE zfill(<<"0">> \o s, width)

FormatSerial(data) ==
    zfill(SubSeq(hex(data[1]), 3, Len(hex(data[1]))), 4)
    \o zfill(SubSeq(hex(data[2]), 3, Len(hex(data[2]))), 4)

(* The initial value of _serial_number, the Python string "None". *)
NoneStr == <<"N", "o", "n", "e">>

----------------------------------------------------------------------------
(* Conversions.  round(num/den, 1) as an integer number of tenths; Python  *)
(* rounds an exact tie to the even neighbour.                              *)

Round1(num, den) ==
    LET n == 10 * num
        q == n \div den
        r == n - q * den
    IN  IF 2 * r < den THEN q
        ELSE IF 2 * r > den THEN q + 1
        ELSE IF q % 2 = 0 THEN q ELSE q + 1

Min(a, b) == IF a < b THEN a ELSE b
Max(a, b) == IF a > b THEN a ELSE b

(* Variant of the temperature property that clamps to the sensor's         *)
(* specified range of -40.0 to 125.0 degrees.                              *)
TemperatureOf_Clamped(raw) ==
    IF raw # None
    THEN Max(Min(Round1(-45 * 65535 + 175 * raw, 65535), 1250), -400)
    ELSE None

(* temperature property: None, or round(-45.0 + 175.0 * raw / 65535.0, 1). *)
TemperatureOf(raw) ==
    IF raw # None THEN Round1(-45 * 65535 + 175 * raw, 65535) ELSE None

(* Variant of the humidity property without the clamp. *)
HumidityOf_NoClamp(raw) ==
    IF raw # None THEN Round1(-6 * 65535 + 125 * raw, 65535) ELSE None

(* humidity property: None, or the rounded value clamped to [0.0, 100.0]. *)
HumidityOf(raw) ==
    IF raw # None
    THEN Max(Min(Round1(-6 * 65535 + 125 * raw, 65535), 1000), 0)
    ELSE None

mode == ModeGetter(_mode)
serial_number == _serial_number
temperature == TemperatureOf(_temperature)
humidity == HumidityOf(_humidity)

----------------------------------------------------------------------------
(* The state machine.  phase is "new" before __init__ runs, "ready" once   *)
(* it has returned and "failed" when it raised (no object exists then).    *)
(* lastOp and busLog describe the operation that ran last and the          *)
(* transport calls it made; lastGood holds the two words of the most       *)
(* recent response that update() accepted; after a mode set lastOp.was is  *)
(* the command byte that was stored when the setter was called.  pure holds the argument and    *)
(* the result of a call of a stateless function (the checksum, the two     *)
(* conversions) in the specifications that exercise those on their own.    *)

OpRec(name, arg, ret, raised) ==
    [name |-> name, arg |-> arg, ret |-> ret, raised |-> raised]

Init ==
    /\ phase = "new"
    /\ _valid = FALSE
    /\ _serial_number = NoneStr
    /\ _mode = 0
    /\ _delay = 0
    /\ _temperature = None
    /\ _humidity = None
    /\ busLog = <<>>
    /\ lastOp = OpRec("none", "", "None", FALSE)
    /\ lastGood = <<>>
    /\ pure = [op |-> "none", arg |-> <<>>, res |-> None]

(* __init__: field defaults, reset(), serial number read, mode setter. *)
Construct ==
    /\ phase = "new"
    /\ \E name \in ModeNames, resetOk \in BOOLEAN, x \in Exchanges :
          LET rs == reset(resetOk)
              sn == _get_serial_number(x.writeOk, x.readOk, x.data)
              ms == ModeSetter(name, 0)
          IN  /\ _valid' = FALSE
              /\ _serial_number' = IF Len(sn.value) # 0
                                   THEN FormatSerial(sn.value)
                                   ELSE NoneStr
              /\ _mode' = ms.mode
              /\ _delay' = ms.delay
              /\ _temperature' = None
              /\ _humidity' = None
              /\ busLog' = rs.log \o sn.log
              /\ phase' = IF rs.raised \/ sn.raised \/ ms.raised
                          THEN "failed" ELSE "ready"
              /\ lastOp' = OpRec("construct", name, "None",
                                 rs.raised \/ sn.raised \/ ms.raised)
    /\ UNCHANGED <<lastGood, pure>>

(* Variant of Reset that also invalidates the cached reading. *)
Reset_InvalidatesReading ==
    /\ phase = "ready"
    /\ \E writeOk \in BOOLEAN :
          LET rs == reset(writeOk)
          IN  /\ busLog' = rs.log
              /\ lastOp' = OpRec("reset", "", IF rs.ret THEN "True" ELSE "False",
                                 rs.raised)
    /\ _valid' = FALSE
    /\ _temperature' = None
    /\ _humidity' = None
    /\ UNCHANGED <<phase, _serial_number, _mode, _delay, lastGood, pure>>

Reset ==
    /\ phase = "ready"
    /\ \E writeOk \in BOOLEAN :
          LET rs == reset(writeOk)
          IN  /\ busLog' = rs.log
              /\ lastOp' = OpRec("reset", "", IF rs.ret THEN "True" ELSE "False",
                                 rs.raised)
    /\ UNCHANGED <<phase, _valid, _serial_number, _mode, _delay,
                   _temperature, _humidity, lastGood, pure>>

Update ==
    /\ phase = "ready"
    /\ \E x \in Exchanges :
          LET u == update(_mode, _delay, _temperature, _humidity,
                          x.writeOk, x.readOk, x.data)
          IN  /\ _valid' = u.valid
              /\ _temperature' = u.temperature
              /\ _humidity' = u.humidity
              /\ busLog' = u.log
              /\ lastOp' = OpRec("update", "", IF u.ret THEN "True" ELSE "False",
                                 u.raised)
              /\ lastGood' = IF u.ret
                             THEN <<x.data[1] * 256 + x.data[2],
                                    x.data[4] * 256 + x.data[5]>>
                             ELSE lastGood
    /\ UNCHANGED <<phase, _serial_number, _mode, _delay, pure>>

SetMode ==
    /\ phase = "ready"
    /\ \E name \in ModeNames :
          LET ms == ModeSetter(name, _delay)
          IN  /\ _mode' = ms.mode
              /\ _delay' = ms.delay
              /\ lastOp' = [name |-> "set_mode", arg |-> name, ret |-> "None",
                            raised |-> ms.raised, was |-> _mode]
    /\ busLog' = <<>>
    /\ UNCHANGED <<phase, _valid, _serial_number, _temperature, _humidity,
                   lastGood, pure>>

Next == Construct \/ Reset \/ Update \/ SetMode

Spec == Init /\ [][Next]_vars

(* The checksum on its own: every two-byte input, one call each. *)
InitCrc ==
    /\ phase = "new"
    /\ _valid = FALSE
    /\ _serial_number = NoneStr
    /\ _mode = 0
    /\ _delay = 0
    /\ _temperature = None
    /\ _humidity = None
    /\ busLog = <<>>
    /\ lastOp = OpRec("none", "", "None", FALSE)
    /\ lastGood = <<>>
    /\ \E b0 \in 0..255, b1 \in 0..255 :
          pure = [op |-> "none", arg |-> <<b0, b1>>, res |-> None]

Crc8Call ==
    /\ pure.op = "none"
    /\ pure' = [op |-> "_calculate_crc8", arg |-> pure.arg,
                res |-> _calculate_crc8(pure.arg)]
    /\ UNCHANGED <<phase, _valid, _serial_number, _mode, _delay, _temperature,
                   _humidity, busLog, lastOp, lastGood>>

NextCrc == Crc8Call

SpecCrc == InitCrc /\ [][NextCrc]_vars

(* The two conversions on their own: a driver that holds the same raw code *)
(* in both fields, for every 16-bit code, and one read of each property.   *)
InitConv ==
    /\ phase = "ready"
    /\ _valid = TRUE
    /\ _serial_number = NoneStr
    /\ _mode = 253
    /\ _delay = 1
    /\ \E raw \in 0..65535 :
          /\ _temperature = raw
          /\ _humidity = raw
          /\ lastGood = <<raw, raw>>
    /\ busLog = <<>>
    /\ lastOp = OpRec("none", "", "None", FALSE)
    /\ pure = [op |-> "none", arg |-> <<>>, res |-> None]

TemperatureCall ==
    /\ pure.op = "none"
    /\ pure' = [op |-> "temperature", arg |-> <<_temperature>>, res |-> temperature]
    /\ UNCHANGED <<phase, _valid, _serial_number, _mode, _delay, _temperature,
                   _humidity, busLog, lastOp, lastGood>>

HumidityCall ==
    /\ pure.op = "none"
    /\ pure' = [op |-> "humidity", arg |-> <<_humidity>>, res |-> humidity]
    /\ UNCHANGED <<phase, _valid, _serial_number, _mode, _delay, _temperature,
                   _humidity, busLog, lastOp, lastGood>>

NextConv == TemperatureCall \/ HumidityCall

SpecConv == InitConv /\ [][NextConv]_vars

TypeOK ==
    /\ phase \in {"new", "ready", "failed"}
    /\ _valid \in BOOLEAN
    /\ _mode \in (0..255) \cup {None}
    /\ _delay \in {0, 1, 11, 101}
    /\ _temperature \in (0..65535) \cup {None}
    /\ _humidity \in (0..65535) \cup {None}
    /\ lastOp.name \in {"none", "construct", "reset", "update", "set_mode"}

----------------------------------------------------------------------------
(* Vocabulary of the properties, stated from the sensor's side: a group is *)
(* intact when its third byte is the checksum the chip attaches to the     *)
(* word, and the transport events of the last operation by kind.           *)

IntactGroup(g) ==
    \E i \in 1..Len(SampleWords) :
        g = <<SampleWords[i] \div 256, SampleWords[i] % 256, SampleCrcs[i]>>

IntactResponse(data) ==
    /\ Len(data) = 6
    /\ IntactGroup(SubSeq(data, 1, 3))
    /\ IntactGroup(SubSeq(data, 4, 6))

WritesOf(log) == {i \in 1..Len(log) : log[i].ev = "write"}
ReadsOf(log) == {i \in 1..Len(log) : log[i].ev = "read"}

InTable(m, d) ==
    \E i \in 1..Len(VALID_MODES) :
        VALID_MODES[i].cmd = m /\ VALID_MODES[i].delay = d

(* C1: a mode set with a name outside the table signals ValueError and     *)
(* leaves the command byte, the settle delay and the name reported by the  *)
(* mode getter as they were before the call.                               *)
C1_InvalidModeKeepsMode ==
    [][(lastOp'.name = "set_mode" /\ lastOp'.arg \notin ValidNames)
        => /\ lastOp'.raised
           /\ _mode' = _mode
           /\ _delay' = _delay
           /\ ModeGetter(_mode') = ModeGetter(_mode)]_vars

(* C2: in every state of a constructed driver the stored command byte and  *)
(* the stored settle delay are together one (command, delay) pair of the   *)
(* mode table.                                                             *)
C2_ModePairInTable == phase = "ready" => InTable(_mode, _delay)

(* C3: when the write of the command byte fails during update(), update()  *)
(* returns False, _valid becomes False, no read is attempted and both      *)
(* stored raw codes keep the values they had before the call.              *)
C3_WriteFailureKeepsCodes ==
    [][(lastOp'.name = "update" /\ ~busLog'[1].ok)
        => /\ lastOp'.ret = "False"
           /\ ~_valid'
           /\ ReadsOf(busLog') = {}
           /\ _temperature' = _temperature
           /\ _humidity' = _humidity]_vars

(* A failed command write in update() after an earlier successful update.  *)
C3_Witness ==
    /\ lastOp.name = "update"
    /\ busLog[1].ev = "write"
    /\ ~busLog[1].ok
    /\ _temperature # None
    /\ _humidity # None

(* C4: when the read of update() fails, or the response has a checksum     *)
(* mismatch in the first group, the second group or both, update() returns *)
(* False, _valid becomes False and neither stored raw code changes.        *)
C4_BadResponseKeepsCodes ==
    [][(/\ lastOp'.name = "update"
        /\ busLog'[1].ok
        /\ \/ ~busLog'[3].ok
           \/ ~IntactGroup(SubSeq(busLog'[3].data, 1, 3))
           \/ ~IntactGroup(SubSeq(busLog'[3].data, 4, 6)))
        => /\ lastOp'.ret = "False"
           /\ ~_valid'
           /\ _temperature' = _temperature
           /\ _humidity' = _humidity]_vars

(* A response whose first group is intact and carries a word other than    *)
(* the stored temperature code, while its second group is corrupted.       *)
C4_Witness ==
    /\ lastOp.name = "update"
    /\ Len(busLog) = 3
    /\ busLog[3].ok
    /\ IntactGroup(SubSeq(busLog[3].data, 1, 3))
    /\ ~IntactGroup(SubSeq(busLog[3].data, 4, 6))
    /\ _temperature # None
    /\ _temperature # busLog[3].data[1] * 256 + busLog[3].data[2]

(* C5: when the command write succeeds and both groups of the response are *)
(* intact, update() returns True, sets _valid and stores byte0*256+byte1   *)
(* as temperature code and byte3*256+byte4 as humidity code.               *)
C5_GoodResponseStored ==
    (/\ lastOp.name = "update"
     /\ busLog[1].ok
     /\ busLog[3].ok
     /\ IntactResponse(busLog[3].data))
    => /\ lastOp.ret = "True"
       /\ _valid
       /\ _temperature = busLog[3].data[1] * 256 + busLog[3].data[2]
       /\ _humidity = busLog[3].data[4] * 256 + busLog[3].data[5]

(* An accepted response whose two words differ. *)
C5_Witness ==
    /\ lastOp.name = "update"
    /\ lastOp.ret = "True"
    /\ IntactResponse(busLog[3].data)
    /\ _temperature = 4660
    /\ _humidity = 171

(* C6: reset() makes exactly one transport write, of the byte 0x94,        *)
(* returns True exactly when that write succeeded and makes no read.       *)
C6_ResetWritesOnce ==
    lastOp.name = "reset"
    => /\ WritesOf(busLog) = {1}
       /\ busLog[1].byte = 148
       /\ ReadsOf(busLog) = {}
       /\ (lastOp.ret = "True") <=> busLog[1].ok
       /\ lastOp.ret \in {"True", "False"}
       /\ ~lastOp.raised

(* A reset whose write failed. *)
C6_Witness ==
    /\ lastOp.name = "reset"
    /\ ~busLog[1].ok
    /\ lastOp.ret = "False"

(* C7: for each of the nine table names, setting the mode to that name and *)
(* then reading the mode returns the same name; the nine command bytes are *)
(* pairwise distinct, so the getter's lookup by command byte inverts the   *)
(* setter's lookup by name.                                                *)
C7_ModeRoundTrip ==
    /\ Cardinality(ValidNames) = 9
    /\ (lastOp.name = "set_mode" /\ lastOp.arg \in ValidNames)
       => (~lastOp.raised /\ mode = lastOp.arg)
    /\ \A i, j \in 1..Len(VALID_MODES) :
          VALID_MODES[i].cmd = VALID_MODES[j].cmd => i = j
    /\ \A n \in ValidNames : ModeGetter(ModeSetter(n, _delay).mode) = n

(* The last table entry has just been selected and is reported back. *)
C7_Witness ==
    /\ lastOp.name = "set_mode"
    /\ lastOp.arg = "heat 0.1s 20mW"
    /\ mode = "heat 0.1s 20mW"
    /\ _mode = 21

(* Where the serial-number exchange of __init__ starts in busLog: after    *)
(* the one or two events of reset().                                       *)
SerialStart(log) == IF log[1].ok THEN 3 ELSE 2

(* The serial-number exchange of __init__ delivered an intact response. *)
SerialReadOk(log) ==
    LET k == SerialStart(log)
    IN  /\ log[k].ok
        /\ Len(log) = k + 2
        /\ log[k + 2].ok
        /\ IntactResponse(log[k + 2].data)

(* C8: construction raises exactly when the initial mode name is not in    *)
(* the table; with a valid name it completes, whatever the reset write and *)
(* the serial-number exchange did, with the table pair of that name as     *)
(* command byte and delay, _valid False and no raw reading.                *)
C8_ConstructionOutcome ==
    lastOp.name = "construct"
    => /\ lastOp.raised <=> lastOp.arg \notin ValidNames
       /\ (phase = "failed") <=> lastOp.raised
       /\ (phase = "ready") <=> ~lastOp.raised
       /\ ~lastOp.raised
          => /\ \E i \in 1..Len(VALID_MODES) :
                   /\ VALID_MODES[i].name = lastOp.arg
                   /\ VALID_MODES[i].cmd = _mode
                   /\ VALID_MODES[i].delay = _delay
             /\ ~_valid
             /\ _temperature = None
             /\ _humidity = None
             /\ temperature = None
             /\ humidity = None

(* Construction completed although the reset write failed and the serial   *)
(* number response was corrupted.                                          *)
C8_Witness ==
    /\ lastOp.name = "construct"
    /\ phase = "ready"
    /\ lastOp.arg = "heat 1s 110mW"
    /\ ~busLog[1].ok
    /\ busLog[2].ok
    /\ Len(busLog) = 4
    /\ busLog[4].ok
    /\ ~IntactResponse(busLog[4].data)

(* A 16-bit word as exactly four lowercase hexadecimal digits. *)
HexWord(w) ==
    <<HexDigits[(w \div 4096) + 1], HexDigits[((w \div 256) % 16) + 1],
      HexDigits[((w \div 16) % 16) + 1], HexDigits[(w % 16) + 1]>>

(* C9: after construction serial_number is the unknown marker exactly when *)
(* the serial-number exchange failed (write error, read error or checksum  *)
(* mismatch); otherwise it is the two words of the response, high word     *)
(* first, each as four lowercase hex digits.                               *)
C9_SerialNumberFormat ==
    (lastOp.name = "construct" /\ phase = "ready")
    => /\ (serial_number = NoneStr) <=> ~SerialReadOk(busLog)
       /\ SerialReadOk(busLog)
          => LET d == busLog[Len(busLog)].data
             IN  /\ serial_number = HexWord(d[1] * 256 + d[2])
                                    \o HexWord(d[4] * 256 + d[5])
                 /\ Len(serial_number) = 8

(* A serial number whose words need zero padding (0x00ab, 0x1234). *)
C9_Witness ==
    /\ lastOp.name = "construct"
    /\ phase = "ready"
    /\ SerialReadOk(busLog)
    /\ serial_number = <<"0", "0", "a", "b", "1", "2", "3", "4">>

(* C10: temperature and humidity are None as long as no update() has       *)
(* succeeded, and afterwards they are the conversions of the raw codes of  *)
(* the most recent successful update(), also while _valid is False.        *)
C10_AccessorsFollowLastGood ==
    phase = "ready"
    => IF lastGood = <<>>
       THEN temperature = None /\ humidity = None
       ELSE /\ temperature = TemperatureOf(lastGood[1])
            /\ humidity = HumidityOf(lastGood[2])
            /\ temperature # None
            /\ humidity # None

(* A failed update() after a successful one: the readings are stale. *)
C10_Witness ==
    /\ lastOp.name = "update"
    /\ lastOp.ret = "False"
    /\ ~_valid
    /\ lastGood = <<4660, 171>>
    /\ temperature = -326
    /\ humidity = 0

(* The reference CRC-8 of the sensor: polynomial 0x31, initial value 0xFF, *)
(* MSB first, no final XOR, the accumulator cut to 8 bits after every      *)
(* shift step.                                                             *)
RECURSIVE RefCrcShift(_, _)
RefCrcShift(crc, n) ==
    IF n = 0 THEN crc
    ELSE RefCrcShift(IF crc >= 128
                     THEN BitXor((2 * crc) % 256, 49)
                     ELSE (2 * crc) % 256,
                     n - 1)

RefCrc8(b0, b1) == RefCrcShift(BitXor(RefCrcShift(BitXor(255, b0), 8), b1), 8)

(* C11: for every two-byte input _calculate_crc8, which masks only at the  *)
(* end, returns the value of the reference CRC-8 that masks after every    *)
(* step; the checksum of [0xBE, 0xEF] is 0x92; the result is a byte.       *)
C11_CrcMatchesReference ==
    pure.op = "_calculate_crc8"
    => /\ pure.res = RefCrc8(pure.arg[1], pure.arg[2])
       /\ pure.res \in 0..255
       /\ pure.arg = <<190, 239>> => pure.res = 146

(* The checksum of the datasheet's example [0xBE, 0xEF] has been computed. *)
C11_Witness ==
    /\ pure.op = "_calculate_crc8"
    /\ pure.arg = <<190, 239>>
    /\ pure.res = 146

(* The multiple of 0.1 nearest to num/den, as a number of tenths, and the  *)
(* test that q is within half a tenth of num/den.                          *)
NearestTenth(num, den) == (20 * num + den) \div (2 * den)

WithinHalfTenth(q, num, den) ==
    /\ 2 * (den * q - 10 * num) <= den
    /\ 2 * (10 * num - den * q) <= den

(* C12: for every raw humidity code humidity() lies in [0.0, 100.0]; it is *)
(* 0.0 where -6.0 + 125.0*raw/65535.0 rounded to one decimal is below 0.0, *)
(* 100.0 where it is above 100.0, and the rounded value otherwise; it is   *)
(* 36.2 for the code 0x5678.                                               *)
C12_HumidityClamped ==
    pure.op = "humidity"
    => LET raw == pure.arg[1]
           q == NearestTenth(-6 * 65535 + 125 * raw, 65535)
       IN  /\ WithinHalfTenth(q, -6 * 65535 + 125 * raw, 65535)
           /\ pure.res \in 0..1000
           /\ q < 0 => pure.res = 0
           /\ q > 1000 => pure.res = 1000
           /\ q \in 0..1000 => pure.res = q
           /\ raw = 22136 => pure.res = 362

(* The highest code, whose formula value 119.0 is reported as 100.0. *)
C12_Witness ==
    /\ pure.op = "humidity"
    /\ pure.arg = <<65535>>
    /\ NearestTenth(-6 * 65535 + 125 * 65535, 65535) = 1190
    /\ pure.res = 1000

(* C13: for every raw temperature code temperature() is                    *)
(* -45.0 + 175.0*raw/65535.0 rounded to one decimal, unclamped: -45.0 for  *)
(* the code 0, 130.0 for the code 65535, -32.6 for the code 0x1234.        *)
C13_TemperatureUnclamped ==
    pure.op = "temperature"
    => LET raw == pure.arg[1]
           q == NearestTenth(-45 * 65535 + 175 * raw, 65535)
       IN  /\ WithinHalfTenth(q, -45 * 65535 + 175 * raw, 65535)
           /\ pure.res = q
           /\ pure.res \in -450..1300
           /\ raw = 0 => pure.res = -450
           /\ raw = 65535 => pure.res = 1300
           /\ raw = 4660 => pure.res = -326

(* The highest code, read as 130.0 degrees. *)
C13_Witness ==
    /\ pure.op = "temperature"
    /\ pure.arg = <<65535>>
    /\ pure.res = 1300

(* C14: in every state the mode getter returns a value: the name of the    *)
(* table entry whose command byte is the stored one, and the empty string  *)
(* when the stored value is the command byte of no table entry.            *)
C14_GetterTotal ==
    /\ \A i \in 1..Len(VALID_MODES) :
          VALID_MODES[i].cmd = _mode => mode = VALID_MODES[i].name
    /\ (\A i \in 1..Len(VALID_MODES) : VALID_MODES[i].cmd # _mode) => mode = ""
    /\ mode \in ValidNames \cup {""}

(* A constructed driver whose stored command byte matches no table entry   *)
(* (it is None after a rejected mode set) and whose getter returns "".     *)
C14_Witness ==
    /\ phase = "ready"
    /\ lastOp.name = "set_mode"
    /\ lastOp.raised
    /\ \A i \in 1..Len(VALID_MODES) : VALID_MODES[i].cmd # _mode
    /\ mode = ""

(* C15: no bus write error, bus read error or checksum mismatch leaves     *)
(* reset(), update() or the serial-number read of __init__ as an           *)
(* exception: reset() and update() end with True or False, construction    *)
(* with a valid name completes, and the only operation that raises is a    *)
(* mode set (also the one inside __init__) with a name outside the table.  *)
C15_OnlyInvalidModeRaises ==
    /\ lastOp.raised
       => (lastOp.name \in {"set_mode", "construct"} /\ lastOp.arg \notin ValidNames)
    /\ lastOp.name \in {"reset", "update"}
       => (lastOp.ret \in {"True", "False"} /\ ~lastOp.raised)
    /\ (lastOp.name = "construct" /\ lastOp.arg \in ValidNames)
       => (~lastOp.raised /\ phase = "ready")

(* An update() whose read raised a bus error and which returned False. *)
C15_Witness ==
    /\ lastOp.name = "update"
    /\ Len(busLog) = 3
    /\ busLog[3].ev = "read"
    /\ ~busLog[3].ok
    /\ lastOp.ret = "False"
    /\ ~lastOp.raised

TableCommands == {VALID_MODES[i].cmd : i \in 1..Len(VALID_MODES)}

(* C16: every update() makes its transport calls in the order write, wait, *)
(* read, with exactly one write and at most one read; a read happens only  *)
(* after a successful write and a wait of the settle delay that the table  *)
(* pairs with the command byte that was written.                           *)
C16_UpdateSequence ==
    lastOp.name = "update"
    => /\ Len(busLog) \in {1, 3}
       /\ WritesOf(busLog) = {1}
       /\ Cardinality(ReadsOf(busLog)) <= 1
       /\ ReadsOf(busLog) # {}
          => /\ busLog[1].ok
             /\ busLog[2].ev = "sleep"
             /\ ReadsOf(busLog) = {3}
             /\ InTable(busLog[1].byte, busLog[2].secs)

(* C17: when a mode set with an unknown name has raised, the next update() *)
(* writes the command byte that was stored before that call, and it        *)
(* returns True exactly when the write succeeds and the response is        *)
(* intact, as it would have without the rejected call.                     *)
C17_UpdateAfterRejectedMode ==
    [][(/\ lastOp.name = "set_mode"
        /\ lastOp.raised
        /\ lastOp.was \in TableCommands
        /\ lastOp'.name = "update")
        => /\ busLog'[1].byte = lastOp.was
           /\ (lastOp'.ret = "True")
              <=> (/\ busLog'[1].ok
                   /\ Len(busLog') = 3
                   /\ busLog'[3].ok
                   /\ IntactResponse(busLog'[3].data))]_vars

(* C18: reset() and every mode set leave _valid, both raw codes (and so    *)
(* both readings) and the serial number unchanged; update() leaves the     *)
(* command byte, the delay and the serial number unchanged; the serial     *)
(* number of a constructed driver never changes.                           *)
C18_FrameConditions ==
    [][/\ lastOp'.name \in {"reset", "set_mode"}
          => /\ _valid' = _valid
             /\ _temperature' = _temperature
             /\ _humidity' = _humidity
             /\ temperature' = temperature
             /\ humidity' = humidity
             /\ _serial_number' = _serial_number
       /\ lastOp'.name = "update"
          => /\ _mode' = _mode
             /\ _delay' = _delay
             /\ mode' = mode
             /\ _serial_number' = _serial_number
       /\ phase = "ready" => serial_number' = serial_number]_vars

(* A reset() of a driver that holds a valid reading and a serial number. *)
C18_Witness ==
    /\ lastOp.name = "reset"
    /\ _valid
    /\ _temperature = 4660
    /\ _humidity = 171
    /\ _serial_number # NoneStr

(* C19: every value handed to the transport's write primitive, during      *)
(* construction, reset() and update(), is one of the eleven sensor command *)
(* bytes, and update() writes a command byte of the mode table.            *)
C19_OnlyCommandBytesWritten ==
    /\ \A i \in WritesOf(busLog) :
          busLog[i].byte \in {148, 137, 253, 246, 224, 57, 50, 47, 36, 30, 21}
    /\ lastOp.name = "update"
       => busLog[1].byte \in {253, 246, 224, 57, 50, 47, 36, 30, 21}

====
